---------------------------- MODULE Spec2Model ----------------------------
(***************************************************************************)
(* A model of the scoring engine of DAT-H (src/scorer.js, and its second   *)
(* version src/unnamed/part_000): calculateHybridResults and the helpers   *)
(* it calls.                                                               *)
(*                                                                         *)
(* Numbers.  The engine computes with IEEE doubles; the model computes in  *)
(* fixed point.  theta, b and the clarity/position weights are held in     *)
(* thousandths, the discrimination a in tenths, a                          *)
(* probability in thousandths, the first derivative in 1e-4, the second    *)
(* derivative in 1e-8 and a type score in 1e-6.  NaN and -Infinity, which  *)
(* the code can produce, are carried as explicit flags beside the value.   *)
(***************************************************************************)
EXTENDS Integers, Sequences, FiniteSets, TLC

\* ------------------------------------------------------------------ bounds
\* Number of forced-choice questions (numbers 1..NumMbti) put to the engine.
NumMbti == 4
\* Number of Likert questions (ids 1..NumLikert) put to the engine.
NumLikert == 1

\* ------------------------------------------------------- number representation
Abs(x) == IF x < 0 THEN -x ELSE x
Max(x, y) == IF x >= y THEN x ELSE y
Min(x, y) == IF x <= y THEN x ELSE y
\* Real division n / d, truncated toward zero (d # 0).
Quot(n, d) ==
    IF (n >= 0) = (d > 0) THEN Abs(n) \div Abs(d) ELSE -(Abs(n) \div Abs(d))
\* Math.round(n / d) for n >= 0, d > 0: halves round up.
RoundDiv(n, d) == (2 * n + d) \div (2 * d)

\* ------------------------------------------------------------- static tables
\* Object.entries(TYPE_FUNCTION_STACKS) visits the keys in this order.
TYPE_ORDER ==
    << "INTP", "ENTP", "ISTP", "ESTP", "INFJ", "ENFJ", "INTJ", "ENTJ",
       "ISFP", "ESFP", "INFP", "ENFP", "ISTJ", "ESTJ", "ISFJ", "ESFJ" >>

Types == { TYPE_ORDER[i] : i \in 1..Len(TYPE_ORDER) }

TYPE_FUNCTION_STACKS ==
    [ INTP |-> <<"Ti", "Ne", "Si", "Fe">>, ENTP |-> <<"Ne", "Ti", "Fe", "Si">>,
      ISTP |-> <<"Ti", "Se", "Ni", "Fe">>, ESTP |-> <<"Se", "Ti", "Fe", "Ni">>,
      INFJ |-> <<"Ni", "Fe", "Ti", "Se">>, ENFJ |-> <<"Fe", "Ni", "Se", "Ti">>,
      INTJ |-> <<"Ni", "Te", "Fi", "Se">>, ENTJ |-> <<"Te", "Ni", "Se", "Fi">>,
      ISFP |-> <<"Fi", "Se", "Ni", "Te">>, ESFP |-> <<"Se", "Fi", "Te", "Ni">>,
      INFP |-> <<"Fi", "Ne", "Si", "Te">>, ENFP |-> <<"Ne", "Fi", "Te", "Si">>,
      ISTJ |-> <<"Si", "Te", "Fi", "Ne">>, ESTJ |-> <<"Te", "Si", "Ne", "Fi">>,
      ISFJ |-> <<"Si", "Fe", "Ti", "Ne">>, ESFJ |-> <<"Fe", "Si", "Ne", "Ti">> ]

\* The characters of a type label (TLC cannot look inside a string).
TypeLetters ==
    [ INTP |-> <<"I", "N", "T", "P">>, ENTP |-> <<"E", "N", "T", "P">>,
      ISTP |-> <<"I", "S", "T", "P">>, ESTP |-> <<"E", "S", "T", "P">>,
      INFJ |-> <<"I", "N", "F", "J">>, ENFJ |-> <<"E", "N", "F", "J">>,
      INTJ |-> <<"I", "N", "T", "J">>, ENTJ |-> <<"E", "N", "T", "J">>,
      ISFP |-> <<"I", "S", "F", "P">>, ESFP |-> <<"E", "S", "F", "P">>,
      INFP |-> <<"I", "N", "F", "P">>, ENFP |-> <<"E", "N", "F", "P">>,
      ISTJ |-> <<"I", "S", "T", "J">>, ESTJ |-> <<"E", "S", "T", "J">>,
      ISFJ |-> <<"I", "S", "F", "J">>, ESFJ |-> <<"E", "S", "F", "J">> ]

\* Variant: includes that never finds the letter (a test for 's' or 't').
IncludesNothing(type, c) == FALSE

\* type.startsWith(c) and type.includes(c)
StartsWith(type, c) == TypeLetters[type][1] = c
Includes(type, c) == \E i \in 1..4 : TypeLetters[type][i] = c

Functions == {"Ti", "Te", "Fi", "Fe", "Si", "Se", "Ni", "Ne"}

\* Object.entries(DICHOTOMY_CONFIG) visits the keys in this order.
DICHOTOMY_ORDER == << "E-I", "S-N", "T-F" >>
Dichotomies == { DICHOTOMY_ORDER[i] : i \in 1..Len(DICHOTOMY_ORDER) }

DICHOTOMY_CONFIG ==
    [ d \in Dichotomies |->
        CASE d = "E-I" -> [poles |-> <<"E", "I">>, tieBreaker |-> "I"]
          [] d = "S-N" -> [poles |-> <<"S", "N">>, tieBreaker |-> "N"]
          [] d = "T-F" -> [poles |-> <<"T", "F">>, tieBreaker |-> "F"] ]

Variants == {"table", "log"}

\* Variant: the weights of Clear and Very Clear exchanged.
ClarityWeightClearHeaviest(pcc) ==
    CASE pcc = "Slight" -> 2000
      [] pcc = "Moderate" -> 4000
      [] pcc = "Clear" -> 8000
      [] pcc = "Very Clear" -> 6000

\* scorer.js: IRT_CLARITY_WEIGHT[pcc], in thousandths.
IRT_CLARITY_WEIGHT(pcc) ==
    CASE pcc = "Slight" -> 2000
      [] pcc = "Moderate" -> 4000
      [] pcc = "Clear" -> 6000
      [] pcc = "Very Clear" -> 8000

\* round(1000 * (2.15 * ln(pci) + 1)) for pci = 1..30.
LogWeightTable ==
    << 1000, 2490, 3362, 3981, 4460, 4852, 5184, 5471, 5724, 5951,
       6155, 6343, 6515, 6674, 6822, 6961, 7091, 7214, 7331, 7441,
       7546, 7646, 7741, 7833, 7921, 8005, 8086, 8164, 8240, 8313 >>

\* part_000: getIrtClarityWeight(pci), in thousandths.
getIrtClarityWeight(pci) ==
    IF pci <= 0 THEN 1000 ELSE LogWeightTable[Min(pci, Len(LogWeightTable))]

\* ATTITUDE_SCORE_WEIGHT = 1.0, in thousandths.
ATTITUDE_SCORE_WEIGHT == 1000

\* Variant: the position weights assigned in reverse, inf the heaviest.
PositionWeightReversed(v) ==
    IF v = "table"
    THEN [dom |-> 1000, aux |-> 1500, ter |-> 3000, inf |-> 4000]
    ELSE [dom |-> 500, aux |-> 1000, ter |-> 3000, inf |-> 5000]

\* ATTITUDE_STACK_POSITION_WEIGHT of each version, in thousandths.
ATTITUDE_STACK_POSITION_WEIGHT(v) ==
    IF v = "table"
    THEN [dom |-> 4000, aux |-> 3000, ter |-> 1500, inf |-> 1000]
    ELSE [dom |-> 5000, aux |-> 3000, ter |-> 1000, inf |-> 500]

\* likertWeights = { 1: 2, 2: 1, 3: 0, 4: -1, 5: -2 }
likertWeights == << 2, 1, 0, -1, -2 >>

\* ------------------------------------------- data the engine is loaded with
\* itemParameterMatrix.js: entry k of the sequence is the item of index k - 1.
ItemDichotomyCycle == << "E-I", "E-I", "S-N", "T-F", "J-P" >>
ItemACycle == << 10, 15, 20 >>
ItemBCycle == << -500, 500, 0, 250 >>

ItemParam(index) ==
    [ dichotomy |-> ItemDichotomyCycle[(index % Len(ItemDichotomyCycle)) + 1],
      params |-> [ a |-> ItemACycle[(index % Len(ItemACycle)) + 1],
                   b |-> ItemBCycle[(index % Len(ItemBCycle)) + 1] ] ]

ItemTable(n) == [ k \in 1..n |-> ItemParam(k - 1) ]

\* questions.json, mbtiQuestions: odd numbers score option A as 1, even ones B.
Option(key) == [ present |-> TRUE, hasScoreKey |-> TRUE, scoreKey |-> key ]
AbsentOption == [ present |-> FALSE, hasScoreKey |-> FALSE, scoreKey |-> 0 ]
NoKeyOption == [ present |-> TRUE, hasScoreKey |-> FALSE, scoreKey |-> 0 ]

MbtiQuestion(n) ==
    [ number |-> n,
      options |-> IF n % 2 = 1 THEN [ A |-> Option(1), B |-> Option(0) ]
                               ELSE [ A |-> Option(0), B |-> Option(1) ] ]

MbtiQuestions == [ n \in 1..NumMbti |-> MbtiQuestion(n) ]

\* The same collection with option B of its first question replaced.
WithFirstB(opt) ==
    [ MbtiQuestions EXCEPT ![1] = [ @ EXCEPT !.options = [ @ EXCEPT !.B = opt ] ] ]

\* questions.json, attitudeQuestions: the two poles of Likert question id.
Construct1Cycle == << "Te", "Ti", "Fe", "Ni", "Se", "Fi", "Ne", "Si" >>
Construct2Cycle == << "Fi", "Ne", "Si", "Te", "Ti", "Fe", "Ni", "Se" >>

AttitudeQuestion(id) ==
    [ id |-> id,
      construct1 |-> [ pole |-> Construct1Cycle[((id - 1) % Len(Construct1Cycle)) + 1] ],
      construct2 |-> [ pole |-> Construct2Cycle[((id - 1) % Len(Construct2Cycle)) + 1] ] ]

AttitudeQuestions == [ id \in 1..NumLikert |-> AttitudeQuestion(id) ]

\* An item table one of whose E-I entries (index 1) names the dichotomy J-P,
\* which the engine does not estimate.
WithJP(table) == [ table EXCEPT ![2] = [ @ EXCEPT !.dichotomy = "J-P" ] ]

\* An item table whose T-F entry (index 3) lies far below the theta range
\* (a = 1, b = -30): its P is 1 to within 1e-13 for every theta of [-3, 3].
WithFarItem(table) == [ table EXCEPT ![4] = [ @ EXCEPT !.params = [ a |-> 10, b |-> -30000 ] ] ]

\* The loaded tables and question metadata an invocation may be given.
InputConfigs ==
    { << ItemTable(NumMbti), MbtiQuestions >>,
      << ItemTable(NumMbti - 1), MbtiQuestions >>,
      << ItemTable(NumMbti), WithFirstB(AbsentOption) >>,
      << ItemTable(NumMbti), WithFirstB(NoKeyOption) >> }

\* ---------------------------------------------------------------------- state
VARIABLES
    variant,              \* which version of the engine runs: scorer.js or part_000
    itemParameters,       \* the imported item-parameter table
    mbtiAnswers,          \* argument: question number -> "none" | chosen option
    attitudeAnswers,      \* argument: question id -> 0 (no answer) | 1..5; an
                          \* entry is drawn when the forEach reads it
    allMbtiQuestions,     \* argument
    allAttitudeQuestions, \* argument
    pc,                   \* where the invocation stands
    dIdx,                 \* position in Object.entries(DICHOTOMY_CONFIG)
    items,                \* findBestThetaForDichotomy: items
    theta,                \* findBestThetaForDichotomy: theta
    iter,                 \* findBestThetaForDichotomy: iter
    coreResults,          \* coreResults
    qIdx,                 \* position of the forEach over allAttitudeQuestions
    attitudeStrengths,    \* attitudeStrengths
    typeScores,           \* typeScores
    bestFitType,          \* bestFitType
    maxScore,             \* maxScore
    result,               \* the returned object
    error,                \* the exception thrown to the caller
    previous,             \* the caller's record of its previous call, if any
    screen,               \* app.js: the active screen
    currentQuestionIndex, \* app.js: currentQuestionIndex
    userAnswers           \* app.js: userAnswers, question key -> "none" | value

\* What an invocation is given, and what its caller holds meanwhile.
ui == << screen, currentQuestionIndex, userAnswers >>
given ==
    << variant, itemParameters, mbtiAnswers, allMbtiQuestions, allAttitudeQuestions,
       previous, ui >>
inputs == << given, attitudeAnswers >>
estimator == << dIdx, items, theta, iter, coreResults >>
scoring == << typeScores, bestFitType, maxScore >>
vars == << inputs, pc, estimator, qIdx, attitudeStrengths, scoring, result, error >>

\* A double: a finite value, or NaN.
Num(v) == [ nan |-> FALSE, v |-> v ]
NaN == [ nan |-> TRUE, v |-> 0 ]

\* ------------------------------------------------------------- the estimator
\* round(1000 / (1 + exp(-x))) at x = 0, 0.5, 1, ..., 8.5.
LogisticKnots ==
    << 500, 622, 731, 818, 881, 924, 953, 971, 982,
       989, 993, 996, 998, 998, 999, 999, 1000, 1000 >>

\* 1 / (1 + Math.exp(-x)) in thousandths, x in thousandths: the knots, joined
\* by straight lines; beyond the last knot the double is 1 to this precision.
Logistic(x) ==
    LET ax == Abs(x)
        k == ax \div 500
        p == IF k + 2 > Len(LogisticKnots)
             THEN 1000
             ELSE LogisticKnots[k + 1]
                  + ((LogisticKnots[k + 2] - LogisticKnots[k + 1]) * (ax % 500)) \div 500
    IN IF x >= 0 THEN p ELSE 1000 - p

\* probability(theta, a, b)
probability(th, a, b) == Logistic(Quot(a * (th - b), 10))

\* Variant: the map built without looking at params.dichotomy, every index
\* under every configured dichotomy.
AllItemIndices(dichotomyName) == [ k \in 1..Len(itemParameters) |-> k - 1 ]

\* dichotomyToQuestionMap.get(dichotomyName) || []: the indices, ascending.
dichotomyToQuestionMap(dichotomyName) ==
    SelectSeq([ k \in 1..Len(itemParameters) |-> k - 1 ],
              LAMBDA index : /\ dichotomyName \in Dichotomies
                             /\ itemParameters[index + 1].dichotomy = dichotomyName)

\* answers[n] is truthy
HasAnswer(answers, n) == n \in DOMAIN answers /\ answers[n] # "none"

\* Variant: the filter on recorded answers left out.
AllQuestionIndices(dichotomyName) == dichotomyToQuestionMap(dichotomyName)

\* allDichotomyIndices.filter(qIndex => answers[qIndex + 1])
answeredQuestionIndices(dichotomyName) ==
    SelectSeq(dichotomyToQuestionMap(dichotomyName),
              LAMBDA qIndex : HasAnswer(mbtiAnswers, qIndex + 1))

\* allQuestions.find(q => q.number === n) finds a question
HasQuestion(n) == \E k \in DOMAIN allMbtiQuestions : allMbtiQuestions[k].number = n
questionData(n) ==
    allMbtiQuestions[CHOOSE k \in DOMAIN allMbtiQuestions :
                        /\ allMbtiQuestions[k].number = n
                        /\ \A j \in DOMAIN allMbtiQuestions :
                              allMbtiQuestions[j].number = n => k <= j]

\* questionData.options[answer.choice].scoreKey raises a TypeError: answer,
\* questionData or the chosen option is undefined.
LookupThrows(qIndex) ==
    \/ ~HasAnswer(mbtiAnswers, qIndex + 1)
    \/ ~HasQuestion(qIndex + 1)
    \/ ~questionData(qIndex + 1).options[mbtiAnswers[qIndex + 1]].present

\* The element the map callback returns for qIndex.
ItemOf(qIndex) ==
    LET option == questionData(qIndex + 1).options[mbtiAnswers[qIndex + 1]]
    IN [ a |-> itemParameters[qIndex + 1].params.a,
         b |-> itemParameters[qIndex + 1].params.b,
         u |-> IF option.hasScoreKey THEN Num(option.scoreKey) ELSE NaN ]

\* firstDerivative after the inner loop, in 1e-4 (every u a number).
RECURSIVE firstDerivative(_, _)
firstDerivative(its, th) ==
    IF its = << >> THEN 0
    ELSE LET item == Head(its)
             P == probability(th, item.a, item.b)
         IN item.a * (item.u.v * 1000 - P) + firstDerivative(Tail(its), th)

\* secondDerivative after the inner loop, in 1e-8.
RECURSIVE secondDerivative(_, _)
secondDerivative(its, th) ==
    IF its = << >> THEN 0
    ELSE LET item == Head(its)
             P == probability(th, item.a, item.b)
         IN -(item.a * item.a * (1000 - P) * P) + secondDerivative(Tail(its), th)

\* Variant: the test for a flat likelihood left out.
NoDegeneracyCheck(sd) == FALSE

\* Math.abs(secondDerivative) < 1e-9
Degenerate(sd) == Abs(sd) * 10 < 1

\* theta - (firstDerivative / secondDerivative), in thousandths.
newTheta(th, fd, sd) ==
    LET divisor == IF Abs(sd) < 1000 THEN (IF sd < 0 THEN -1 ELSE 1) ELSE Quot(sd, 1000)
    IN th - Quot(fd * 10000, divisor)

\* Math.max(-3, Math.min(3, newTheta))
clampedTheta(nt) == Max(-3000, Min(3000, nt))

\* Math.abs(clampedTheta - theta) < 0.0001
Converged(ct, th) == Abs(ct - th) * 10 < 1

\* One pass of the for loop body: the theta it leaves and whether it breaks.
NewtonPass(its, th) ==
    IF th.nan
    THEN [ theta |-> NaN, brk |-> FALSE ]
    ELSE LET sd == secondDerivative(its, th.v)
             fdNaN == \E i \in 1..Len(its) : its[i].u.nan
         IN IF Degenerate(sd) THEN [ theta |-> th, brk |-> TRUE ]
            ELSE IF fdNaN THEN [ theta |-> NaN, brk |-> FALSE ]
            ELSE LET ct == clampedTheta(newTheta(th.v, firstDerivative(its, th.v), sd))
                 IN [ theta |-> Num(ct), brk |-> Converged(ct, th.v) ]

\* for (let iter = 0; iter < 20; iter++)
MaxIter == 20

\* ------------------------------------------------------- the clarity classifier
\* Variant: Math.floor in place of Math.round.
PciRoundedDown(th) == IF th = 0 THEN 1 ELSE Max(1, (Abs(th) * 30) \div (3 * 1000))

\* theta === 0 ? 1 : Math.max(1, Math.round((Math.abs(theta) / 3.0) * 30))
PciOf(th) == IF th = 0 THEN 1 ELSE Max(1, RoundDiv(Abs(th) * 30, 3 * 1000))

\* Variant: > in place of >= at the three thresholds.
PccCategoryAboveThreshold(pci) ==
    IF pci > 26 THEN "Very Clear"
    ELSE IF pci > 16 THEN "Clear"
    ELSE IF pci > 6 THEN "Moderate"
    ELSE "Slight"

\* getPccCategory(pci)
getPccCategory(pci) ==
    IF pci >= 26 THEN "Very Clear"
    ELSE IF pci >= 16 THEN "Clear"
    ELSE IF pci >= 6 THEN "Moderate"
    ELSE "Slight"

\* The entry stored in coreResults; a NaN theta gives a NaN pci, which
\* getPccCategory sends to "Slight".
CoreResult(th) ==
    IF th.nan
    THEN [ theta |-> th, pci |-> NaN, pcc |-> "Slight" ]
    ELSE [ theta |-> th, pci |-> Num(PciOf(th.v)), pcc |-> getPccCategory(PciOf(th.v)) ]

NoResult == [ theta |-> Num(0), pci |-> Num(0), pcc |-> "unset" ]

\* -------------------------------------------------------- the attitude aggregator
ZeroStrengths == [ f \in Functions |-> 0 ]

\* Variant: a negative score is credited to construct1 as well.
FoldAnswerFirstPoleOnly(strengths, q, choice) ==
    IF choice # 0 /\ likertWeights[choice] # 0
    THEN [ strengths EXCEPT ![q.construct1.pole] = @ + Abs(likertWeights[choice]) ]
    ELSE strengths

\* Variant: the negative score is added as it is, Math.abs left out.
FoldAnswerSigned(strengths, q, choice) ==
    IF choice # 0
    THEN LET score == likertWeights[choice]
         IN IF score > 0
            THEN [ strengths EXCEPT ![q.construct1.pole] = @ + score ]
            ELSE IF score < 0
            THEN [ strengths EXCEPT ![q.construct2.pole] = @ + score ]
            ELSE strengths
    ELSE strengths

\* The forEach callback: attitudeStrengths after question q, given its answer.
FoldAnswer(strengths, q, choice) ==
    IF choice # 0
    THEN LET score == likertWeights[choice]
         IN IF score > 0
            THEN [ strengths EXCEPT ![q.construct1.pole] = @ + score ]
            ELSE IF score < 0
            THEN [ strengths EXCEPT ![q.construct2.pole] = @ + Abs(score) ]
            ELSE strengths
    ELSE strengths

\* ---------------------------------------------------------- the holistic scorer
\* The clarity weight of a dichotomy's result, in thousandths.
ClarityWeight(v, core) ==
    IF v = "table" THEN IRT_CLARITY_WEIGHT(core.pcc) ELSE getIrtClarityWeight(core.pci.v)

\* Variant: theta taken as it is for either pole.
MatchIgnoringPole(positive, th) == th

\* type matches the positive pole ? theta : -theta
Match(positive, th) == IF positive THEN th ELSE -th

\* Part A of currentScore, in 1e-6 (every theta a number).
DichotomyTerm(v, core, type) ==
      Match(StartsWith(type, "E"), core["E-I"].theta.v) * ClarityWeight(v, core["E-I"])
    + Match(Includes(type, "S"), core["S-N"].theta.v) * ClarityWeight(v, core["S-N"])
    + Match(Includes(type, "T"), core["T-F"].theta.v) * ClarityWeight(v, core["T-F"])

\* attitudeScore, in thousandths.
attitudeScore(v, strengths, type) ==
    LET stack == TYPE_FUNCTION_STACKS[type]
        w == ATTITUDE_STACK_POSITION_WEIGHT(v)
    IN   strengths[stack[1]] * w.dom + strengths[stack[2]] * w.aux
       + strengths[stack[3]] * w.ter + strengths[stack[4]] * w.inf

\* currentScore of a type when it is stored in typeScores, in 1e-6.
currentScore(v, core, strengths, type) ==
    IF \E d \in Dichotomies : core[d].theta.nan
    THEN NaN
    ELSE Num(DichotomyTerm(v, core, type)
             + attitudeScore(v, strengths, type) * ATTITUDE_SCORE_WEIGHT)

\* Variant: let maxScore = 0.
MaxScoreStartsAtZero == [ negInf |-> FALSE, v |-> 0 ]

\* maxScore: -Infinity, or a finite score.
NegInfinity == [ negInf |-> TRUE, v |-> 0 ]
Finite(x) == [ negInf |-> FALSE, v |-> x ]

\* Variant: the comparison reversed, so the loop tracks the lowest score.
ScoreBeatsWhenLower(cs, ms) == ~cs.nan /\ (ms.negInf \/ cs.v < ms.v)

\* Variant: >= in place of >, so the last of several equal scores wins.
ScoreBeatsOrTies(cs, ms) == ~cs.nan /\ (ms.negInf \/ cs.v >= ms.v)

\* Variant: !(currentScore <= maxScore), which a NaN score passes.
ScoreBeatsUnlessNotGreater(cs, ms) == cs.nan \/ ms.negInf \/ cs.v > ms.v

\* currentScore > maxScore
ScoreBeats(cs, ms) == ~cs.nan /\ (ms.negInf \/ cs.v > ms.v)

\* typeScores after the loop, in the order the loop stores them.
TypeScoresOf(v, core, strengths) ==
    [ k \in 1..Len(TYPE_ORDER) |-> currentScore(v, core, strengths, TYPE_ORDER[k]) ]

\* if (currentScore > maxScore) { maxScore = currentScore; bestFitType = type; }
Track(before, type, cs) ==
    IF ScoreBeats(cs, before.maxScore)
    THEN [ bestFitType |-> type, maxScore |-> Finite(cs.v) ]
    ELSE before

\* bestFitType and maxScore after the first k types of the loop.
RECURSIVE ScoreLoop(_, _)
ScoreLoop(scores, k) ==
    IF k = 0
    THEN [ bestFitType |-> "null", maxScore |-> NegInfinity ]
    ELSE Track(ScoreLoop(scores, k - 1), TYPE_ORDER[k], scores[k])

\* x.toFixed(2) of a theta (thousandths) and of a score (1e-6), in hundredths.
ToFixed2(x, unit) ==
    IF x >= 0 THEN (x + unit \div 2) \div unit ELSE -((-x + unit \div 2) \div unit)

\* The fields the rationale template interpolates.
Rationale(core, type, ms) ==
    [ ei |-> ToFixed2(core["E-I"].theta.v, 10), eiPcc |-> core["E-I"].pcc,
      sn |-> ToFixed2(core["S-N"].theta.v, 10), snPcc |-> core["S-N"].pcc,
      tf |-> ToFixed2(core["T-F"].theta.v, 10), tfPcc |-> core["T-F"].pcc,
      type |-> type, score |-> ToFixed2(ms.v, 10000) ]

\* The object calculateHybridResults returns.
ResultOf(core, type, ms, scores) ==
    [ finalType |-> type,
      dominant |-> TYPE_FUNCTION_STACKS[type][1],
      auxiliary |-> TYPE_FUNCTION_STACKS[type][2],
      tertiary |-> TYPE_FUNCTION_STACKS[type][3],
      inferior |-> TYPE_FUNCTION_STACKS[type][4],
      score |-> ms.v,
      rationale |-> Rationale(core, type, ms),
      allTypeScores |-> scores ]

NoResultYet == << >>

\* A TypeError of the JavaScript engine: it names the property read of
\* undefined, and no question (question = 0).
NoError == [ name |-> "none", reading |-> "", question |-> 0 ]
TypeError(property) == [ name |-> "TypeError", reading |-> property, question |-> 0 ]

\* The caller has made no call before this one.
NoPrevious ==
    [ outcome |-> "none", answers |-> << >>, coreResults |-> << >>,
      result |-> NoResultYet, error |-> NoError ]

\* ------------------------------------------------------------------ the quiz UI
\* app.js init: allQuestions = [...mbtiQuestions, ...attitudeQuestions], each
\* tagged with its type; position i of the sequence is index i - 1.
allQuestions ==
    [ i \in 1..(Len(allMbtiQuestions) + Len(allAttitudeQuestions)) |->
        IF i <= Len(allMbtiQuestions)
        THEN [ type |-> "mbti", number |-> allMbtiQuestions[i].number, id |-> 0 ]
        ELSE [ type |-> "attitude", number |-> 0,
               id |-> allAttitudeQuestions[i - Len(allMbtiQuestions)].id ] ]

\* q.type === 'mbti' ? q.number : q.id.  The key carries the type: the numbers
\* of questions.json and its ids are taken to be different keys.
qId(q) == IF q.type = "mbti" THEN << "mbti", q.number >> ELSE << "attitude", q.id >>

QuestionKeys == { qId(allQuestions[i]) : i \in DOMAIN allQuestions }

\* The value of the radio inputs renderQuestion writes for a question.
InputValues(q) == IF q.type = "mbti" THEN {"A", "B"} ELSE {"1", "2", "3", "4", "5"}

\* userAnswers = {}
NoSavedAnswers == [ key \in QuestionKeys |-> "none" ]

\* The module-level state of app.js when init has loaded the questions.
UiAtLoad ==
    /\ screen = "welcome"
    /\ currentQuestionIndex = 0
    /\ userAnswers = NoSavedAnswers

\* --------------------------------------------------------------------- actions
Init ==
    /\ variant \in Variants
    /\ \E cfg \in InputConfigs :
          /\ itemParameters = cfg[1]
          /\ allMbtiQuestions = cfg[2]
    /\ mbtiAnswers \in [ 1..NumMbti -> {"none", "A", "B"} ]
    /\ attitudeAnswers = << >>
    /\ allAttitudeQuestions = AttitudeQuestions
    /\ pc = "step1"
    /\ dIdx = 1
    /\ items = << >>
    /\ theta = Num(0)
    /\ iter = 0
    /\ coreResults = [ d \in Dichotomies |-> NoResult ]
    /\ qIdx = 1
    /\ attitudeStrengths = ZeroStrengths
    /\ typeScores = << >>
    /\ bestFitType = "null"
    /\ maxScore = NegInfinity
    /\ result = NoResultYet
    /\ error = NoError
    /\ previous = NoPrevious
    /\ UiAtLoad

\* findBestThetaForDichotomy up to the loop: select the answered items.
SelectItems ==
    /\ pc = "step1"
    /\ LET answered == answeredQuestionIndices(DICHOTOMY_ORDER[dIdx])
       IN IF Len(answered) = 0
          THEN /\ theta' = Num(0)
               /\ pc' = "estimated"
               /\ UNCHANGED << items, iter, error >>
          ELSE IF \E i \in 1..Len(answered) : LookupThrows(answered[i])
          THEN /\ pc' = "threw"
               /\ error' = TypeError("scoreKey")
               /\ UNCHANGED << items, theta, iter >>
          ELSE /\ items' = [ i \in 1..Len(answered) |-> ItemOf(answered[i]) ]
               /\ theta' = Num(0)
               /\ iter' = 0
               /\ pc' = "newton"
               /\ UNCHANGED error
    /\ UNCHANGED << inputs, dIdx, coreResults, qIdx, attitudeStrengths, scoring, result >>

\* One iteration of the Newton-Raphson loop.
NewtonIteration ==
    /\ pc = "newton"
    /\ iter < MaxIter
    /\ LET pass == NewtonPass(items, theta)
       IN /\ theta' = pass.theta
          /\ iter' = IF pass.brk THEN iter ELSE iter + 1
          /\ pc' = IF pass.brk \/ iter + 1 >= MaxIter THEN "estimated" ELSE "newton"
    /\ UNCHANGED << inputs, dIdx, items, coreResults, qIdx, attitudeStrengths,
                    scoring, result, error >>

\* Step 1 of calculateHybridResults for the theta returned: pci and pcc.
Classify ==
    /\ pc = "estimated"
    /\ coreResults' = [ coreResults EXCEPT ![DICHOTOMY_ORDER[dIdx]] = CoreResult(theta) ]
    /\ IF dIdx < Len(DICHOTOMY_ORDER)
       THEN /\ dIdx' = dIdx + 1
            /\ pc' = "step1"
       ELSE /\ dIdx' = dIdx
            /\ pc' = IF Len(allAttitudeQuestions) = 0 THEN "step3" ELSE "step2"
    /\ UNCHANGED << inputs, items, theta, iter, qIdx, attitudeStrengths,
                    scoring, result, error >>

\* Step 2: the forEach callback on the next Likert question.
FoldLikert ==
    /\ pc = "step2"
    /\ \E choice \in 0..5 :
          LET q == allAttitudeQuestions[qIdx]
          IN /\ q.id \in DOMAIN attitudeAnswers => choice = attitudeAnswers[q.id]
             /\ attitudeAnswers' = (q.id :> choice) @@ attitudeAnswers
             /\ attitudeStrengths' = FoldAnswer(attitudeStrengths, q, choice)
    /\ qIdx' = qIdx + 1
    /\ pc' = IF qIdx = Len(allAttitudeQuestions) THEN "step3" ELSE "step2"
    /\ UNCHANGED << given, estimator, scoring, result, error >>

\* Step 3: the loop over the 16 stacks.
ScoreStacks ==
    /\ pc = "step3"
    /\ typeScores' = TypeScoresOf(variant, coreResults, attitudeStrengths)
    /\ LET end == ScoreLoop(typeScores', Len(TYPE_ORDER))
       IN /\ bestFitType' = end.bestFitType
          /\ maxScore' = end.maxScore
    /\ pc' = "step4"
    /\ UNCHANGED << inputs, estimator, qIdx, attitudeStrengths, result, error >>

\* Step 4: the stack of the best fit, the rationale and the returned object.
Finalize ==
    /\ pc = "step4"
    /\ IF bestFitType = "null"
       THEN /\ pc' = "threw"
            /\ error' = TypeError("0")
            /\ UNCHANGED result
       ELSE /\ pc' = "returned"
            /\ result' = ResultOf(coreResults, bestFitType, maxScore, typeScores)
            /\ UNCHANGED error
    /\ UNCHANGED << inputs, estimator, qIdx, attitudeStrengths, scoring >>

Next ==
    \/ SelectItems
    \/ NewtonIteration
    \/ Classify
    \/ FoldLikert
    \/ ScoreStacks
    \/ Finalize

Spec == Init /\ [][Next]_vars

\* ------------------------------------------------------- a second invocation
\* The questions whose answer no dichotomy's estimate reads: no item entry, or
\* an entry naming a dichotomy outside DICHOTOMY_CONFIG.
Unmapped ==
    { n \in DOMAIN mbtiAnswers :
        \/ n > Len(itemParameters)
        \/ itemParameters[n].dichotomy \notin Dichotomies }

\* Variant: attitudeStrengths declared once at module level, so a later call
\* goes on adding to the strengths the earlier call left.
CallAgainKeepingStrengths ==
    /\ pc \in {"returned", "threw"}
    /\ previous.outcome = "none"
    /\ previous' = [ outcome |-> pc, answers |-> mbtiAnswers, coreResults |-> coreResults,
                     result |-> result, error |-> error ]
    /\ \E n \in Unmapped \cup {0}, choice \in {"none", "A", "B"} :
          mbtiAnswers' = IF n = 0 THEN mbtiAnswers ELSE [ mbtiAnswers EXCEPT ![n] = choice ]
    /\ pc' = "step1"
    /\ dIdx' = 1
    /\ items' = << >>
    /\ theta' = Num(0)
    /\ iter' = 0
    /\ coreResults' = [ d \in Dichotomies |-> NoResult ]
    /\ qIdx' = 1
    /\ attitudeStrengths' = attitudeStrengths
    /\ typeScores' = << >>
    /\ bestFitType' = "null"
    /\ maxScore' = NegInfinity
    /\ result' = NoResultYet
    /\ error' = NoError
    /\ UNCHANGED << variant, itemParameters, allMbtiQuestions, allAttitudeQuestions,
                    attitudeAnswers, ui >>

\* Variant: typeScores, bestFitType and maxScore declared once at module
\* level, so a later call starts from what the earlier call left in them.
CallAgainKeepingScores ==
    /\ pc \in {"returned", "threw"}
    /\ previous.outcome = "none"
    /\ previous' = [ outcome |-> pc, answers |-> mbtiAnswers, coreResults |-> coreResults,
                     result |-> result, error |-> error ]
    /\ \E n \in Unmapped \cup {0}, choice \in {"none", "A", "B"} :
          mbtiAnswers' = IF n = 0 THEN mbtiAnswers ELSE [ mbtiAnswers EXCEPT ![n] = choice ]
    /\ pc' = "step1"
    /\ dIdx' = 1
    /\ items' = << >>
    /\ theta' = Num(0)
    /\ iter' = 0
    /\ coreResults' = [ d \in Dichotomies |-> NoResult ]
    /\ qIdx' = 1
    /\ attitudeStrengths' = ZeroStrengths
    /\ UNCHANGED << typeScores, bestFitType, maxScore >>
    /\ result' = NoResultYet
    /\ error' = NoError
    /\ UNCHANGED << variant, itemParameters, allMbtiQuestions, allAttitudeQuestions,
                    attitudeAnswers, ui >>

\* The caller keeps the outcome of the call that ended and calls
\* calculateHybridResults once more: with the same arguments, or with the
\* answer to one unmapped question changed, added or removed.  The function
\* declares its working state anew (const coreResults = {}, const
\* attitudeStrengths = {...}, let bestFitType = null, let maxScore =
\* -Infinity, const typeScores = {}).
CallAgain ==
    /\ pc \in {"returned", "threw"}
    /\ previous.outcome = "none"
    /\ previous' = [ outcome |-> pc, answers |-> mbtiAnswers, coreResults |-> coreResults,
                     result |-> result, error |-> error ]
    /\ \E n \in Unmapped \cup {0}, choice \in {"none", "A", "B"} :
          mbtiAnswers' = IF n = 0 THEN mbtiAnswers ELSE [ mbtiAnswers EXCEPT ![n] = choice ]
    /\ pc' = "step1"
    /\ dIdx' = 1
    /\ items' = << >>
    /\ theta' = Num(0)
    /\ iter' = 0
    /\ coreResults' = [ d \in Dichotomies |-> NoResult ]
    /\ qIdx' = 1
    /\ attitudeStrengths' = ZeroStrengths
    /\ typeScores' = << >>
    /\ bestFitType' = "null"
    /\ maxScore' = NegInfinity
    /\ result' = NoResultYet
    /\ error' = NoError
    /\ UNCHANGED << variant, itemParameters, allMbtiQuestions, allAttitudeQuestions,
                    attitudeAnswers, ui >>

\* The tables and metadata of the calls that are made twice.
TwiceConfigs ==
    { << WithJP(ItemTable(NumMbti)), MbtiQuestions >>,
      << ItemTable(NumMbti - 1), WithFirstB(AbsentOption) >> }

\* A first call on a quiz every question of which was answered.
InitTwice ==
    /\ variant \in Variants
    /\ \E cfg \in TwiceConfigs :
          /\ itemParameters = cfg[1]
          /\ allMbtiQuestions = cfg[2]
    /\ mbtiAnswers \in [ 1..NumMbti -> {"A", "B"} ]
    /\ attitudeAnswers = << >>
    /\ allAttitudeQuestions = AttitudeQuestions
    /\ pc = "step1"
    /\ dIdx = 1
    /\ items = << >>
    /\ theta = Num(0)
    /\ iter = 0
    /\ coreResults = [ d \in Dichotomies |-> NoResult ]
    /\ qIdx = 1
    /\ attitudeStrengths = ZeroStrengths
    /\ typeScores = << >>
    /\ bestFitType = "null"
    /\ maxScore = NegInfinity
    /\ result = NoResultYet
    /\ error = NoError
    /\ previous = NoPrevious
    /\ UiAtLoad

NextTwice ==
    \/ Next
    \/ CallAgain

SpecTwice == InitTwice /\ [][NextTwice]_vars

\* -------------------------------------------------------- the estimator alone
\* The tables and metadata the estimator is run on.
EstimateConfigs ==
    { << ItemTable(NumMbti), MbtiQuestions >>,
      << WithFarItem(ItemTable(NumMbti)), MbtiQuestions >>,
      << ItemTable(NumMbti), WithFirstB(NoKeyOption) >> }

\* Step 1 of a call, on any set of forced-choice answers.
InitEstimate ==
    /\ variant \in Variants
    /\ \E cfg \in EstimateConfigs :
          /\ itemParameters = cfg[1]
          /\ allMbtiQuestions = cfg[2]
    /\ mbtiAnswers \in [ 1..NumMbti -> {"none", "A", "B"} ]
    /\ attitudeAnswers = << >>
    /\ allAttitudeQuestions = AttitudeQuestions
    /\ pc = "step1"
    /\ dIdx = 1
    /\ items = << >>
    /\ theta = Num(0)
    /\ iter = 0
    /\ coreResults = [ d \in Dichotomies |-> NoResult ]
    /\ qIdx = 1
    /\ attitudeStrengths = ZeroStrengths
    /\ typeScores = << >>
    /\ bestFitType = "null"
    /\ maxScore = NegInfinity
    /\ result = NoResultYet
    /\ error = NoError
    /\ previous = NoPrevious
    /\ UiAtLoad

NextEstimate ==
    \/ SelectItems
    \/ NewtonIteration
    \/ Classify

SpecEstimate == InitEstimate /\ [][NextEstimate]_vars

\* ----------------------------------------------------------- the quiz of app.js
\* What init loads and what no handler of app.js assigns.
loaded == << variant, itemParameters, allMbtiQuestions, allAttitudeQuestions, previous >>

\* The locals of a call of the engine.
locals == << estimator, qIdx, attitudeStrengths, scoring, result, error >>

\* No handler is running: the page waits for an event.
Idle == pc = "idle"

\* likertWeights[answer.choice] reads the input's value as a property key.
LikertChoice(value) ==
    CASE value = "1" -> 1 [] value = "2" -> 2 [] value = "3" -> 3
      [] value = "4" -> 4 [] value = "5" -> 5 [] OTHER -> 0

\* submitQuiz: mbtiAnswers[q.number] = { choice: userAnswers[q.number] } for the
\* forced-choice questions that have a saved answer.
GatheredMbtiAnswers ==
    [ n \in 1..Len(allMbtiQuestions) |-> userAnswers[qId(allQuestions[n])] ]

\* submitQuiz: attitudeAnswers[q.id] = { choice: userAnswers[q.id] } for the
\* Likert questions that have a saved answer.
GatheredAttitudeAnswers ==
    [ k \in 1..Len(allAttitudeQuestions) |->
        LikertChoice(userAnswers[qId(allQuestions[Len(allMbtiQuestions) + k])]) ]

\* The click listener of startBtn: showScreen('quiz'); renderQuestion().
handleStart ==
    /\ Idle
    /\ screen' = "quiz"
    /\ UNCHANGED << loaded, mbtiAnswers, attitudeAnswers, pc, locals,
                    currentQuestionIndex, userAnswers >>

\* handleAnswerSelect: a change event of one of the rendered radio inputs saves
\* its value under the key of the current question.
handleAnswerSelect ==
    /\ Idle
    /\ LET q == allQuestions[currentQuestionIndex + 1]
       IN \E value \in InputValues(q) :
             userAnswers' = [ userAnswers EXCEPT ![qId(q)] = value ]
    /\ UNCHANGED << loaded, mbtiAnswers, attitudeAnswers, pc, locals,
                    screen, currentQuestionIndex >>

\* handleNext with the test of the saved answer left out.
handleNextUnchecked ==
    /\ Idle
    /\ IF currentQuestionIndex < Len(allQuestions) - 1
       THEN /\ currentQuestionIndex' = currentQuestionIndex + 1
            /\ UNCHANGED << mbtiAnswers, attitudeAnswers, pc >>
       ELSE /\ mbtiAnswers' = GatheredMbtiAnswers
            /\ attitudeAnswers' = GatheredAttitudeAnswers
            /\ pc' = "step1"
            /\ UNCHANGED currentQuestionIndex
    /\ UNCHANGED << loaded, locals, screen, userAnswers >>

\* handleNext: without a saved answer for the current question only the error
\* message changes; otherwise the next question is shown, or, on the last
\* question, submitQuiz gathers the answers and calls the engine.
handleNext ==
    /\ Idle
    /\ LET q == allQuestions[currentQuestionIndex + 1]
       IN IF userAnswers[qId(q)] = "none"
          THEN UNCHANGED << currentQuestionIndex, mbtiAnswers, attitudeAnswers, pc >>
          ELSE IF currentQuestionIndex < Len(allQuestions) - 1
               THEN /\ currentQuestionIndex' = currentQuestionIndex + 1
                    /\ UNCHANGED << mbtiAnswers, attitudeAnswers, pc >>
               ELSE /\ mbtiAnswers' = GatheredMbtiAnswers
                    /\ attitudeAnswers' = GatheredAttitudeAnswers
                    /\ pc' = "step1"
                    /\ UNCHANGED currentQuestionIndex
    /\ UNCHANGED << loaded, locals, screen, userAnswers >>

\* handleBack
handleBack ==
    /\ Idle
    /\ IF currentQuestionIndex > 0
       THEN currentQuestionIndex' = currentQuestionIndex - 1
       ELSE UNCHANGED currentQuestionIndex
    /\ UNCHANGED << loaded, mbtiAnswers, attitudeAnswers, pc, locals,
                    screen, userAnswers >>

\* restartQuiz
restartQuiz ==
    /\ Idle
    /\ currentQuestionIndex' = 0
    /\ userAnswers' = NoSavedAnswers
    /\ screen' = "welcome"
    /\ UNCHANGED << loaded, mbtiAnswers, attitudeAnswers, pc, locals >>

\* The engine's locals and arguments are gone when the call has ended.
CallEnded ==
    /\ pc' = "idle"
    /\ mbtiAnswers' = [ n \in 1..Len(allMbtiQuestions) |-> "none" ]
    /\ attitudeAnswers' = << >>
    /\ dIdx' = 1
    /\ items' = << >>
    /\ theta' = Num(0)
    /\ iter' = 0
    /\ coreResults' = [ d \in Dichotomies |-> NoResult ]
    /\ qIdx' = 1
    /\ attitudeStrengths' = ZeroStrengths
    /\ typeScores' = << >>
    /\ bestFitType' = "null"
    /\ maxScore' = NegInfinity
    /\ result' = NoResultYet
    /\ error' = NoError

\* submitQuiz after the engine has returned: the texts are set and
\* showScreen('results') runs.
submitQuizReturn ==
    /\ pc = "returned"
    /\ screen' = "results"
    /\ CallEnded
    /\ UNCHANGED << loaded, currentQuestionIndex, userAnswers >>

\* The engine has thrown: the exception leaves submitQuiz and handleNext, and
\* showScreen('results') is not run.
submitQuizThrow ==
    /\ pc = "threw"
    /\ CallEnded
    /\ UNCHANGED << loaded, ui >>

\* The item table and the questions the page is loaded with.
QuizConfigs ==
    { << ItemTable(NumMbti), MbtiQuestions >>,
      << ItemTable(NumMbti), WithFirstB(NoKeyOption) >> }

\* The page after init: the welcome screen, index 0, no saved answer.  app.js
\* imports calculateHybridResults from scorer.js.
InitQuiz ==
    /\ variant = "table"
    /\ \E cfg \in QuizConfigs :
          /\ itemParameters = cfg[1]
          /\ allMbtiQuestions = cfg[2]
    /\ mbtiAnswers = [ n \in 1..NumMbti |-> "none" ]
    /\ attitudeAnswers = << >>
    /\ allAttitudeQuestions = AttitudeQuestions
    /\ pc = "idle"
    /\ dIdx = 1
    /\ items = << >>
    /\ theta = Num(0)
    /\ iter = 0
    /\ coreResults = [ d \in Dichotomies |-> NoResult ]
    /\ qIdx = 1
    /\ attitudeStrengths = ZeroStrengths
    /\ typeScores = << >>
    /\ bestFitType = "null"
    /\ maxScore = NegInfinity
    /\ result = NoResultYet
    /\ error = NoError
    /\ previous = NoPrevious
    /\ UiAtLoad

\* An event is handled to its end before the next one: the engine's steps
\* belong to the handleNext that called submitQuiz.
NextQuiz ==
    \/ handleStart
    \/ handleAnswerSelect
    \/ handleNext
    \/ handleBack
    \/ restartQuiz
    \/ Next
    \/ submitQuizReturn
    \/ submitQuizThrow

SpecQuiz == InitQuiz /\ [][NextQuiz]_vars

\* ---------------------------------------------------------------- properties
Returned == pc = "returned"

\* Position of a type in the declaration order.
IndexOfType(type) == CHOOSE k \in 1..Len(TYPE_ORDER) : TYPE_ORDER[k] = type

\* The types whose entry in the returned table equals the returned score.
TopTypes == { k \in 1..Len(TYPE_ORDER) : result.allTypeScores[k].v = result.score }

\* C1: whenever calculateHybridResults returns, the returned score is the
\* maximum of the 16 entries of allTypeScores (each of them a number) and
\* allTypeScores[finalType] is that score.
C1_ScoreIsTableMax ==
    Returned =>
        /\ Len(result.allTypeScores) = Len(TYPE_ORDER)
        /\ \A k \in 1..Len(TYPE_ORDER) :
              /\ ~result.allTypeScores[k].nan
              /\ result.allTypeScores[k].v <= result.score
        /\ result.finalType \in Types
        /\ result.allTypeScores[IndexOfType(result.finalType)].v = result.score

\* C1 witness: a call returned a table whose entries differ, with a best fit
\* other than the first type of the table.
C1_Witness ==
    /\ Returned
    /\ result.finalType # TYPE_ORDER[1]
    /\ \E k \in 1..Len(TYPE_ORDER) : result.allTypeScores[k].v < result.score

NoAnswers ==
    /\ \A n \in DOMAIN mbtiAnswers : mbtiAnswers[n] = "none"
    /\ \A id \in DOMAIN attitudeAnswers : attitudeAnswers[id] = 0

NoneAnswered(d) ==
    \A n \in DOMAIN mbtiAnswers :
        (n <= Len(itemParameters) /\ itemParameters[n].dichotomy = d)
            => mbtiAnswers[n] = "none"

\* The dichotomy at position i has been estimated and classified.
Classified(i) ==
    \/ i < dIdx
    \/ pc \in {"step2", "step3", "step4", "returned"}
    \/ pc = "threw" /\ error = TypeError("0")

\* C4: a dichotomy none of whose questions has an answer (or that has no item
\* at all) gets theta = 0 from findBestThetaForDichotomy, with no iteration
\* and no error, and the category Slight.
C4_UnansweredDichotomyNeutral ==
    \A i \in 1..Len(DICHOTOMY_ORDER) :
        NoneAnswered(DICHOTOMY_ORDER[i]) =>
            /\ (i = dIdx /\ ~Classified(i)) =>
                  /\ pc \in {"step1", "estimated"}
                  /\ pc = "estimated" => theta = Num(0)
            /\ Classified(i) =>
                  /\ coreResults[DICHOTOMY_ORDER[i]].theta = Num(0)
                  /\ coreResults[DICHOTOMY_ORDER[i]].pcc = "Slight"

\* C4 witness: one dichotomy without answers was classified Slight at theta 0
\* in a call where another dichotomy got a non-zero theta.
C4_Witness ==
    /\ Returned
    /\ \E d \in Dichotomies : NoneAnswered(d) /\ coreResults[d].pcc = "Slight"
    /\ \E d \in Dichotomies : ~NoneAnswered(d) /\ coreResults[d].theta.v # 0
    /\ \E d \in Dichotomies : dichotomyToQuestionMap(d) = << >>

\* The clarity classifier on its own: step 1 applied to any theta the
\* estimator can return, -3 to 3 in thousandths.
InitClassify ==
    /\ variant \in Variants
    /\ itemParameters = ItemTable(NumMbti)
    /\ allMbtiQuestions = MbtiQuestions
    /\ mbtiAnswers = [ n \in 1..NumMbti |-> "A" ]
    /\ attitudeAnswers = << >>
    /\ allAttitudeQuestions = AttitudeQuestions
    /\ pc = "estimated"
    /\ dIdx = 1
    /\ items = << >>
    /\ theta \in { Num(t) : t \in -3000..3000 }
    /\ iter = 0
    /\ coreResults = [ d \in Dichotomies |-> NoResult ]
    /\ qIdx = 1
    /\ attitudeStrengths = ZeroStrengths
    /\ typeScores = << >>
    /\ bestFitType = "null"
    /\ maxScore = NegInfinity
    /\ result = NoResultYet
    /\ error = NoError
    /\ previous = NoPrevious
    /\ UiAtLoad

NextClassify == Classify

SpecClassify == InitClassify /\ [][NextClassify]_vars

\* theta is a number within the closed interval [-3, 3].
InRange(th) == ~th.nan /\ -3000 <= th.v /\ th.v <= 3000

\* C5: theta lies in [-3, 3] after every Newton iteration and when
\* findBestThetaForDichotomy returns it, whatever the answers.
C5_ThetaInRange ==
    /\ InRange(theta)
    /\ \A d \in Dichotomies : InRange(coreResults[d].theta)

\* max(1, round(|theta| / 3 * 30)), theta in thousandths: round(|theta| / 100).
ClaimedPci(t) == IF t = 0 THEN 1 ELSE Max(1, (Abs(t) + 50) \div 100)

\* C6: for a theta in [-3, 3] the PCI is 1 at theta = 0 and
\* max(1, round(|theta| / 3 * 30)) otherwise, an integer of 1..30, and it does
\* not decrease when |theta| grows.
C6_PciFormula ==
    \A i \in 1..Len(DICHOTOMY_ORDER) :
        LET core == coreResults[DICHOTOMY_ORDER[i]]
            t == core.theta.v
        IN (Classified(i) /\ InRange(core.theta)) =>
              /\ ~core.pci.nan
              /\ core.pci.v = ClaimedPci(t)
              /\ core.pci.v \in 1..30
              /\ Abs(t) < 3000 => core.pci.v <= PciOf(Abs(t) + 1)
              /\ Abs(t) > 0 => PciOf(Abs(t) - 1) <= core.pci.v
              /\ \A j \in 1..Len(DICHOTOMY_ORDER) :
                    LET other == coreResults[DICHOTOMY_ORDER[j]]
                    IN (Classified(j) /\ InRange(other.theta)
                        /\ Abs(t) <= Abs(other.theta.v)) => core.pci.v <= other.pci.v

\* C6 witness: a theta strictly between 0 and 3 whose tenfold magnitude falls
\* on a half (|theta| = 1.25) was classified, with PCI 13.
C6_Witness ==
    /\ Classified(1)
    /\ Abs(coreResults["E-I"].theta.v) = 1250
    /\ coreResults["E-I"].pci = Num(13)

\* The category the claim gives a PCI of 1..30.
ClaimedPcc(p) ==
    CASE p \in 1..5 -> "Slight"
      [] p \in 6..15 -> "Moderate"
      [] p \in 16..25 -> "Clear"
      [] p \in 26..30 -> "Very Clear"

\* C7: getPccCategory sends PCI 1..5 to Slight, 6..15 to Moderate, 16..25 to
\* Clear and 26..30 to Very Clear, one category for each PCI.
C7_PccBoundaries ==
    \A i \in 1..Len(DICHOTOMY_ORDER) :
        LET core == coreResults[DICHOTOMY_ORDER[i]]
        IN (Classified(i) /\ ~core.pci.nan /\ core.pci.v \in 1..30) =>
              /\ core.pcc = ClaimedPcc(core.pci.v)
              /\ core.pcc \in {"Slight", "Moderate", "Clear", "Very Clear"}

\* C7 witness: a PCI on a threshold, 26, was classified Very Clear.
C7_Witness ==
    /\ Classified(1)
    /\ coreResults["E-I"].pci = Num(26)
    /\ coreResults["E-I"].pcc = "Very Clear"

\* The table of the claim: 1 -> +2, 2 -> +1, 3 -> 0, 4 -> -1, 5 -> -2.
ClaimedWeight(choice) ==
    CASE choice = 1 -> 2 [] choice = 2 -> 1 [] choice = 3 -> 0
      [] choice = 4 -> -1 [] choice = 5 -> -2 [] choice = 0 -> 0

\* What the answer to question id adds to the strength of function f.
Contribution(f, id) ==
    LET w == ClaimedWeight(attitudeAnswers[id])
        q == allAttitudeQuestions[id]
    IN IF w > 0 /\ q.construct1.pole = f THEN w
       ELSE IF w < 0 /\ q.construct2.pole = f THEN -w
       ELSE 0

\* The sum of the contributions of the questions 1..n that have been read.
RECURSIVE FoldedStrength(_, _)
FoldedStrength(f, n) ==
    IF n = 0 THEN 0
    ELSE (IF n \in DOMAIN attitudeAnswers THEN Contribution(f, n) ELSE 0)
         + FoldedStrength(f, n - 1)

C9_StrengthsNonNegative ==
    /\ DOMAIN attitudeStrengths = Functions
    /\ \A f \in Functions : attitudeStrengths[f] >= 0

\* C9 witness: every Likert question was folded in, one of them with a
\* response on the negative side of the scale.
C9_Witness ==
    /\ pc = "step3"
    /\ \E id \in DOMAIN attitudeAnswers : attitudeAnswers[id] \in {4, 5}
    /\ \E f \in Functions : attitudeStrengths[f] > 0

\* Question n is answered, its item belongs to dichotomy d, and the chosen
\* option is missing from its options or has no scoreKey.
Unusable(n, d) ==
    /\ HasAnswer(mbtiAnswers, n)
    /\ n <= Len(itemParameters)
    /\ itemParameters[n].dichotomy = d
    /\ HasQuestion(n)
    /\ LET option == questionData(n).options[mbtiAnswers[n]]
       IN ~option.present \/ ~option.hasScoreKey

\* C10: once the estimator has taken up a dichotomy with an answer whose
\* option has no usable response code, the call has thrown an error that
\* names the offending question, and no estimate was computed from it.
C10_FailFastOnUnusableOption ==
    \A i \in 1..Len(DICHOTOMY_ORDER) :
        \A n \in DOMAIN mbtiAnswers :
            (Unusable(n, DICHOTOMY_ORDER[i]) /\ (i < dIdx \/ (i = dIdx /\ pc # "step1"))) =>
                /\ pc = "threw"
                /\ error.name # "none"
                /\ Unusable(error.question, DICHOTOMY_ORDER[i])

\* C11: a call that has ended has either thrown, leaving an error and no
\* Result, or returned a complete Result: finalType one of the 16 labels,
\* dominant to inferior the four entries of its stack in order, and a score
\* that is a number; and a Result exists only once the call has returned.
C11_ResultCompleteOrError ==
    /\ Returned =>
          /\ error = NoError
          /\ result.finalType \in Types
          /\ << result.dominant, result.auxiliary, result.tertiary, result.inferior >>
                = TYPE_FUNCTION_STACKS[result.finalType]
          /\ result.score \in Int
          /\ ~typeScores[IndexOfType(result.finalType)].nan
          /\ ~maxScore.negInf
    /\ pc = "threw" => (error.name = "TypeError" /\ result = NoResultYet)
    /\ ~Returned => result = NoResultYet

\* C11 witness: a call returned a Result for a type other than the first, on
\* the metadata with which other answers make the call throw.
C11_Witness ==
    /\ Returned
    /\ result.finalType # TYPE_ORDER[1]
    /\ allMbtiQuestions = WithFirstB(NoKeyOption)

\* The letter a type carries on the axis of dichotomy d.
LetterOn(type, d) ==
    CASE d = "E-I" -> TypeLetters[type][1]
      [] d = "S-N" -> TypeLetters[type][2]
      [] d = "T-F" -> TypeLetters[type][3]

\* C12: in a returned Result, on every axis whose theta is exactly 0 the
\* selected type carries the tie-breaking pole of that axis (I, N, F).
C12_TieBreakerPoleOnNeutralAxis ==
    Returned =>
        \A d \in Dichotomies :
            coreResults[d].theta = Num(0) =>
                LetterOn(result.finalType, d) = DICHOTOMY_CONFIG[d].tieBreaker

\* A second call has ended.
SecondEnded == previous.outcome # "none" /\ pc \in {"returned", "threw"}

ArgumentsKept ==
    /\ variant' = variant
    /\ itemParameters' = itemParameters
    /\ mbtiAnswers' = mbtiAnswers
    /\ allMbtiQuestions' = allMbtiQuestions
    /\ allAttitudeQuestions' = allAttitudeQuestions
    /\ \A id \in DOMAIN attitudeAnswers :
          id \in DOMAIN attitudeAnswers' /\ attitudeAnswers'[id] = attitudeAnswers[id]

\* The working state after a step is that of a call that has just begun.
FreshAfter ==
    /\ \A d \in Dichotomies : coreResults'[d] = NoResult
    /\ \A f \in Functions : attitudeStrengths'[f] = 0
    /\ typeScores' = << >>
    /\ bestFitType' = "null"
    /\ maxScore'.negInf
    /\ theta' = Num(0)
    /\ iter' = 0

\* C16: no step of an invocation changes the item table or the arguments;
\* a call that follows another starts from fresh working state (no theta,
\* zero strengths, empty score table, no best fit), and the strengths it
\* scores with are the fold of its own answers alone.
C16_InputsKeptStateFresh ==
    [][ /\ pc \notin {"returned", "threw"} => ArgumentsKept
        /\ (pc \in {"returned", "threw"} /\ pc' = "step1") => FreshAfter
        /\ pc' = "step3" =>
              \A f \in Functions :
                  attitudeStrengths'[f] = FoldedStrength(f, Len(allAttitudeQuestions))'
      ]_vars

\* C16 witness: a second call has reached the scoring step with non-zero
\* strengths, after a first call that returned with non-zero strengths too.
C16_Witness ==
    /\ previous.outcome = "returned"
    /\ pc = "step4"
    /\ \E f \in Functions : attitudeStrengths[f] > 0
    /\ \E k \in 1..Len(TYPE_ORDER) : previous.result.allTypeScores[k].v # 0

\* The dichotomy term the claim gives a candidate: on each axis theta if the
\* candidate carries the first pole (E, S, T), minus theta otherwise, times
\* the clarity weight of the axis.
ClaimedDichotomyTerm(type) ==
    LET Oriented(d) ==
            IF LetterOn(type, d) = DICHOTOMY_CONFIG[d].poles[1]
            THEN coreResults[d].theta.v ELSE -coreResults[d].theta.v
        Axis(d) == Oriented(d) * ClarityWeight(variant, coreResults[d])
    IN Axis("E-I") + Axis("S-N") + Axis("T-F")

\* The function term of a candidate.
FunctionTerm(type) ==
    attitudeScore(variant, attitudeStrengths, type) * ATTITUDE_SCORE_WEIGHT

\* Two candidates carry the same E-I, S-N and T-F letters.
SameAxes(t1, t2) == \A d \in Dichotomies : LetterOn(t1, d) = LetterOn(t2, d)

\* C14: every stored score is the candidate's dichotomy term plus its function
\* term, and two candidates with the same E-I, S-N and T-F letters differ in
\* score by exactly the difference of their function terms.
C14_ScoreIsDichotomyPlusFunction ==
    (pc = "step4" /\ \A d \in Dichotomies : ~coreResults[d].theta.nan) =>
        /\ \A k \in 1..Len(TYPE_ORDER) :
              typeScores[k].v = ClaimedDichotomyTerm(TYPE_ORDER[k]) + FunctionTerm(TYPE_ORDER[k])
        /\ \A k1 \in 1..Len(TYPE_ORDER) : \A k2 \in (k1 + 1)..Len(TYPE_ORDER) :
              SameAxes(TYPE_ORDER[k1], TYPE_ORDER[k2]) =>
                  typeScores[k1].v - typeScores[k2].v
                      = FunctionTerm(TYPE_ORDER[k1]) - FunctionTerm(TYPE_ORDER[k2])

\* C14 witness: the scores of INTP and INTJ were stored and differ, with a
\* non-zero theta on each estimated axis that has an item.
C14_Witness ==
    /\ pc = "step4"
    /\ coreResults["E-I"].theta.v > 0
    /\ coreResults["S-N"].theta.v < 0
    /\ ~typeScores[1].nan
    /\ typeScores[IndexOfType("INTP")].v # typeScores[IndexOfType("INTJ")].v

\* Question n has an item entry that names dichotomy d.
MeasuredBy(n, d) == n <= Len(itemParameters) /\ itemParameters[n].dichotomy = d

\* Question n is answered with the option its metadata scores 1.
AnsweredTowardFirstPole(n) ==
    /\ HasAnswer(mbtiAnswers, n)
    /\ HasQuestion(n)
    /\ LET option == questionData(n).options[mbtiAnswers[n]]
       IN option.present /\ option.hasScoreKey /\ option.scoreKey = 1

\* Every forced-choice question is answered, each E-I question toward E.
EveryAnswerTowardE ==
    /\ \A n \in DOMAIN mbtiAnswers : HasAnswer(mbtiAnswers, n)
    /\ \A n \in DOMAIN mbtiAnswers : MeasuredBy(n, "E-I") => AnsweredTowardFirstPole(n)
    /\ \E n \in DOMAIN mbtiAnswers : MeasuredBy(n, "E-I")

\* Every Likert question whose construct1 pole is Te or Fe was answered 1.
ExtravertedJudgingAtOne ==
    /\ DOMAIN attitudeAnswers = { allAttitudeQuestions[i].id : i \in DOMAIN allAttitudeQuestions }
    /\ \A i \in DOMAIN allAttitudeQuestions :
          allAttitudeQuestions[i].construct1.pole \in {"Te", "Fe"}
              => attitudeAnswers[allAttitudeQuestions[i].id] = 1
    /\ \E i \in DOMAIN allAttitudeQuestions :
          allAttitudeQuestions[i].construct1.pole \in {"Te", "Fe"}

\* The Result names an Extraverted type whose dominant function has the
\* greatest attitude strength.
ExtravertedWithStrongestDominant ==
    /\ StartsWith(result.finalType, "E")
    /\ \A f \in Functions : attitudeStrengths[f] <= attitudeStrengths[result.dominant]

OnlyScenarioAnswers ==
    /\ \A n \in DOMAIN mbtiAnswers :
          IF MeasuredBy(n, "E-I") THEN AnsweredTowardFirstPole(n)
          ELSE ~HasAnswer(mbtiAnswers, n)
    /\ \E n \in DOMAIN mbtiAnswers : MeasuredBy(n, "E-I")
    /\ \A i \in DOMAIN allAttitudeQuestions :
          allAttitudeQuestions[i].construct1.pole \notin {"Te", "Fe"}
              => attitudeAnswers[allAttitudeQuestions[i].id] \in {0, 3}

WeightAt(v, p) == ClarityWeight(v, [ theta |-> Num(0), pci |-> Num(p), pcc |-> getPccCategory(p) ])

\* The weights the claim names for the category table, in thousandths.
ClaimedTableWeight(pcc) ==
    CASE pcc = "Slight" -> 2000 [] pcc = "Moderate" -> 4000
      [] pcc = "Clear" -> 6000 [] pcc = "Very Clear" -> 8000

\* C17: the clarity weight of a classified dichotomy is no smaller than the
\* weight at any smaller PCI of 1..30 and no greater than the weight at any
\* larger one; in the table variant it is 2, 4, 6, 8 by category, in the
\* logarithmic variant it is 1 at PCI 1 (and at pci <= 0) and grows strictly.
C17_ClarityWeightMonotone ==
    LET core == coreResults["E-I"]
        w == ClarityWeight(variant, core)
    IN (Classified(1) /\ ~core.pci.nan) =>
          /\ \A q \in 1..30 :
                /\ q <= core.pci.v => WeightAt(variant, q) <= w
                /\ q >= core.pci.v => WeightAt(variant, q) >= w
          /\ variant = "table" => w = ClaimedTableWeight(ClaimedPcc(core.pci.v))
          /\ variant = "log" =>
                /\ (core.pci.v = 1) = (w = 1000)
                /\ core.pci.v > 1 => WeightAt(variant, core.pci.v - 1) < w
                /\ WeightAt(variant, 0) = 1000

\* C17 witness: a dichotomy at PCI 16 was weighted more than one at PCI 15
\* would be, in the table variant.
C17_Witness ==
    /\ Classified(1)
    /\ variant = "table"
    /\ coreResults["E-I"].pci = Num(16)
    /\ ClarityWeight(variant, coreResults["E-I"]) > WeightAt(variant, 15)

\* The accumulated second derivative at the current theta is below 1e-9 in
\* magnitude (it is held in 1e-8).
FlatLikelihood == ~theta.nan /\ Abs(secondDerivative(items, theta.v)) * 10 < 1

\* C18: the loop makes at most 20 iterations; an iteration that finds the
\* second derivative below 1e-9 ends the loop with theta as it was and no
\* error; otherwise theta becomes the clamped update, and the loop ends at
\* once when that update moved theta by less than 1e-4.
C18_EstimatorTerminates ==
    [][ pc = "newton" =>
          /\ iter < 20 /\ iter' <= 20
          /\ pc' \in {"newton", "estimated"}
          /\ pc' = "newton" => iter' = iter + 1
          /\ iter = 19 => pc' = "estimated"
          /\ error' = NoError
          /\ FlatLikelihood => (theta' = theta /\ pc' = "estimated")
          /\ (~theta.nan /\ ~FlatLikelihood /\ ~theta'.nan) =>
                /\ theta'.v = clampedTheta(newTheta(theta.v, firstDerivative(items, theta.v),
                                                   secondDerivative(items, theta.v)))
                /\ Abs(theta'.v - theta.v) * 10 < 1 => pc' = "estimated"
      ]_vars

\* C18 witness: the T-F estimate was returned from the first iteration, the
\* answered item being flat at theta = 0 with a response it does not predict.
C18_Witness ==
    /\ pc = "estimated"
    /\ DICHOTOMY_ORDER[dIdx] = "T-F"
    /\ Len(items) = 1 /\ items[1].u = Num(0)
    /\ FlatLikelihood
    /\ iter = 0
    /\ theta = Num(0)
    /\ error = NoError

\* The answered questions measured by dichotomy d, ascending, each as the
\* estimator's item: the parameters of its item entry (index n - 1) and the
\* response code of the chosen option.
RECURSIVE ClaimedItems(_, _)
ClaimedItems(d, n) ==
    IF n = 0 THEN << >>
    ELSE IF MeasuredBy(n, d) /\ HasAnswer(mbtiAnswers, n)
    THEN Append(ClaimedItems(d, n - 1),
                [ a |-> itemParameters[n].params.a,
                  b |-> itemParameters[n].params.b,
                  u |-> Num(questionData(n).options[mbtiAnswers[n]].scoreKey) ])
    ELSE ClaimedItems(d, n - 1)

\* The answers of this call and of the previous one agree on every question
\* whose item entry names one of the three dichotomies.
SameMappedAnswers ==
    \A n \in DOMAIN mbtiAnswers : n \notin Unmapped => mbtiAnswers[n] = previous.answers[n]

\* C19: the items the estimator iterates over for a dichotomy are those of
\* the answered questions whose item entry names it, whatever the other
\* answers are; and a call whose answers differ from the previous call's only
\* on J-P questions or on questions without an item entry ends with the same
\* thetas and the same Result (or error).
C19_ThetaReadsOwnAnswersOnly ==
    /\ pc = "newton" => items = ClaimedItems(DICHOTOMY_ORDER[dIdx], NumMbti)
    /\ (SecondEnded /\ SameMappedAnswers) =>
          /\ pc = previous.outcome
          /\ error = previous.error
          /\ \A d \in Dichotomies : coreResults[d] = previous.coreResults[d]
          /\ Returned => result = previous.result

\* C19 witness: a second call returned after the answer to a J-P question
\* was changed, the other answers having given a non-zero theta.
C19_Witness ==
    /\ SecondEnded
    /\ Returned
    /\ \E n \in Unmapped :
          /\ n <= Len(itemParameters)
          /\ itemParameters[n].dichotomy = "J-P"
          /\ mbtiAnswers[n] # previous.answers[n]
    /\ \E d \in Dichotomies : coreResults[d].theta.v # 0

\* Theta of dichotomy d oriented to the letter the type carries on its axis.
OrientedTheta(type, d) ==
    IF LetterOn(type, d) = DICHOTOMY_CONFIG[d].poles[1]
    THEN coreResults[d].theta.v ELSE -coreResults[d].theta.v

\* C20: a returned score is >= 0: when the 16 scores are stored, every
\* function term is >= 0 and some candidate has all three oriented thetas
\* >= 0 and hence a score >= 0, so the maximum is not negative.
C20_ScoreNonNegative ==
    /\ (pc = "step4" /\ \A d \in Dichotomies : ~coreResults[d].theta.nan) =>
          /\ \A k \in 1..Len(TYPE_ORDER) : FunctionTerm(TYPE_ORDER[k]) >= 0
          /\ \A d \in Dichotomies : ClarityWeight(variant, coreResults[d]) > 0
          /\ \E k \in 1..Len(TYPE_ORDER) :
                /\ \A d \in Dichotomies : OrientedTheta(TYPE_ORDER[k], d) >= 0
                /\ typeScores[k].v >= 0
                /\ ~maxScore.negInf /\ maxScore.v >= typeScores[k].v
    /\ Returned => result.score >= 0

\* C20 witness: a call returned a score above 0 from a table in which some
\* candidate scored below 0.
C20_Witness ==
    /\ Returned
    /\ result.score > 0
    /\ \E k \in 1..Len(TYPE_ORDER) : result.allTypeScores[k].v < 0
    /\ \E d \in Dichotomies : coreResults[d].theta.v < 0

\* Whether the question at an index has a saved answer.
Saved(index) == userAnswers[qId(allQuestions[index + 1])] # "none"

EveryQuestionSaved == \A index \in 0..(Len(allQuestions) - 1) : Saved(index)

\* The index is one of a question, and every question before it is answered.
IndexInRangeAnswersBehind ==
    /\ currentQuestionIndex \in 0..(Len(allQuestions) - 1)
    /\ \A index \in 0..(currentQuestionIndex - 1) : Saved(index)

AtLastQuestionAllSaved ==
    /\ currentQuestionIndex = Len(allQuestions) - 1
    /\ EveryQuestionSaved

\* C21: in the quiz, whatever start, answer-select, Next, Back and Restart
\* events are handled, currentQuestionIndex is in 0..N-1 and every question at
\* a smaller index has a saved answer, before and after every step; submitQuiz
\* runs, and the results screen appears, only at the last question with every
\* question answered; and a step that brings back the welcome screen leaves
\* index 0 and no saved answer.
C21_QuizNavigation ==
    [][ /\ IndexInRangeAnswersBehind
        /\ IndexInRangeAnswersBehind'
        /\ ~Idle => AtLastQuestionAllSaved
        /\ (Idle /\ ~Idle') => AtLastQuestionAllSaved
        /\ (screen # "results" /\ screen' = "results") => AtLastQuestionAllSaved
        /\ screen = "results" => EveryQuestionSaved
        /\ (screen # "welcome" /\ screen' = "welcome") =>
              (currentQuestionIndex' = 0 /\ userAnswers' = NoSavedAnswers) ]_vars

\* A whole quiz has been answered and submitted, and its result is shown.
C21_Witness ==
    /\ screen = "results"
    /\ Idle
    /\ AtLastQuestionAllSaved

=============================================================================
